---- MODULE Spec2Model ----
(***************************************************************************)
(* Model of nonebot_plugin_llmchat/__init__.py: the per-group queue and    *)
(* worker (handle_message / process_messages), the admission rule          *)
(* (is_triggered), the administrative commands, the reply splitter         *)
(* (pop_reasoning_content and the <botbr> split) and the state snapshot    *)
(* (save_state / load_state).                                              *)
(*                                                                         *)
(* Scheduling is asyncio's: one event loop, a coroutine runs until it      *)
(* really suspends.  queue.put on an unbounded Queue and queue.get on a    *)
(* non-empty Queue do not suspend, so the worker's suspension points are   *)
(* the model call, handler.send and asyncio.sleep; every action below is   *)
(* the code between two suspension points.                                  *)
(*                                                                         *)
(* Strings are sequences of tokens: "<think>", "</think>" and "<botbr>"    *)
(* stand for the literal tags, " " for a whitespace character and any      *)
(* other token for a piece of text.                                        *)
(***************************************************************************)
EXTENDS Integers, Sequences, FiniteSets, TLC

VARIABLES
    phase,           \* "boot" (module imported), "running" (started up) or
                     \* "startup_failed" (init_plugin raised)
    run,             \* which process this is: 1 the first, 2 after a restart, ...
    default_preset,  \* plugin_config.default_preset
    group_states,    \* the defaultdict: group id -> GroupState, created lazily
    tasks,           \* the process_messages tasks that are not done yet
    inflight,        \* inbound messages on their way through the matchers: stage
                     \* "handle" (handle_message is next), "reset" (handle_reset
                     \* is next) or "done" (a reset command that has been handled)
    outbound,        \* per group: Messages handed to handler.send by the current
                     \* (or, when idle, the last) worker iteration
    data_file,       \* llmchat_state.json
    nextId,          \* number of inbound messages so far (message ids)
    ncmd,            \* number of commands so far
    nsave,           \* number of snapshots written so far
    failed,          \* per group, a record of the run so far: the batch of the
                     \* last model call that raised, while no reset and no
                     \* eviction from past_events has touched it
    in_content,      \* reply splitter on its own: the response text
    split_out        \* reply splitter on its own: its result

vars == <<phase, run, default_preset, group_states, tasks, inflight, outbound,
          data_file, nextId, ncmd, nsave, failed, in_content, split_out>>

sysvars == <<phase, run, default_preset, group_states, tasks, inflight, outbound,
             data_file, nextId, ncmd, nsave, failed>>

splitvars == <<in_content, split_out>>

----------------------------------------------------------------------------
(* Bounds *)

HistorySize == 3        \* plugin_config.history_size, scaled down
PastEventsSize == 2     \* plugin_config.past_events_size, scaled down
MaxEvents == 3          \* inbound messages in one behaviour
MaxCommands == 1        \* commands in one behaviour
MaxSaves == 1           \* snapshots written in one behaviour
MaxLen == 6             \* length of the texts given to the reply splitter

GroupIds == {7, 12}
ChatGroups == {12}                     \* the groups with traffic
PresetNames == {"p1"}                  \* names of plugin_config.api_presets
PresetArgs == {"off", "p1", "zz"}      \* arguments of the preset command
None == <<"None">>                     \* Python's None where a str is optional
PromptArgs == {<<"c">>}                  \* arguments of the prompt command
\* what the model call raises: timeout, transport failure, backend error
ModelErrors == {"APITimeoutError", "APIConnectionError", "APIStatusError"}
Alphabet == {"<think>", "</think>", "<botbr>", " ", "a", "b"}

\* what client.chat.completions.create can return:
\* message.content and the optional message.reasoning_content
Responses ==
    { [content |-> <<"<think>", "a", "</think>", "a", "<botbr>", "b">>,
       reasoning_content |-> None],
      [content |-> <<"b">>, reasoning_content |-> <<"a">>],
      [content |-> <<"<think>", "a", "</think>", "b">>, reasoning_content |-> <<"b">>],
      [content |-> <<" ">>, reasoning_content |-> None],
      [content |-> None, reasoning_content |-> None] }

----------------------------------------------------------------------------
(* Strings *)

IsSpace(s) == Len(s) > 0 /\ \A i \in 1..Len(s) : s[i] = " "

RECURSIVE LStrip(_)
LStrip(s) == IF s # <<>> /\ Head(s) = " " THEN LStrip(Tail(s)) ELSE s

RECURSIVE RStrip(_)
RStrip(s) ==
    IF s # <<>> /\ s[Len(s)] = " " THEN RStrip(SubSeq(s, 1, Len(s) - 1)) ELSE s

Strip(s) == RStrip(LStrip(s))

\* str.replace(sub, ""), sub not empty
RECURSIVE Remove(_, _)
Remove(s, sub) ==
    IF Len(s) < Len(sub) THEN s
    ELSE IF SubSeq(s, 1, Len(sub)) = sub
         THEN Remove(SubSeq(s, Len(sub) + 1, Len(s)), sub)
         ELSE <<Head(s)>> \o Remove(Tail(s), sub)

\* str.split("<botbr>")
RECURSIVE Split(_)
Split(s) ==
    IF \E i \in 1..Len(s) : s[i] = "<botbr>"
    THEN LET i == CHOOSE i \in 1..Len(s) :
                     s[i] = "<botbr>" /\ \A j \in 1..(i - 1) : s[j] # "<botbr>"
         IN <<SubSeq(s, 1, i - 1)>> \o Split(SubSeq(s, i + 1, Len(s)))
    ELSE <<s>>

\* re.match(r"<think>(.*?)</think>", content, flags=re.DOTALL)
ThinkMatched(content) ==
    /\ Len(content) >= 2
    /\ content[1] = "<think>"
    /\ \E j \in 2..Len(content) : content[j] = "</think>"

ThinkClose(content) ==
    CHOOSE j \in 2..Len(content) :
        content[j] = "</think>" /\ \A m \in 2..(j - 1) : content[m] # "</think>"

\* matched.group(1)
ThinkGroup(content) == SubSeq(content, 2, ThinkClose(content) - 1)

pop_reasoning_content(content) ==
    IF content = None THEN [reply |-> None, think |-> None]
    ELSE IF ThinkMatched(content) /\ ThinkGroup(content) # <<>>
         THEN [reply |-> Strip(Remove(content, ThinkGroup(content))),
               think |-> Strip(ThinkGroup(content))]
         ELSE [reply |-> content, think |-> None]

\* a deque without maxlen
LastN_unbounded(s, n) == s

\* deque(items, maxlen=n)
LastN(s, n) == IF Len(s) <= n THEN s ELSE SubSeq(s, Len(s) - n + 1, Len(s))

\* deque.append under maxlen
DequeAppend(s, x, n) == LastN(Append(s, x), n)

----------------------------------------------------------------------------
(* Group state *)

GroupState ==
    [preset_name |-> default_preset,
     history |-> <<>>,
     queue |-> <<>>,
     processing |-> FALSE,
     past_events |-> <<>>,
     group_prompt |-> None,
     output_reasoning_content |-> FALSE]

\* group_states[g] of the defaultdict: the state is created on first access
Touch(g) == IF g \in DOMAIN group_states THEN group_states
            ELSE group_states @@ (g :> GroupState)

format_message(ev) == ToString(ev)

UserTurn(content) == [role |-> "user", content |-> content]
AssistantTurn(reply) == [role |-> "assistant", content |-> reply]

RemoveAt(s, i) == SubSeq(s, 1, i - 1) \o SubSeq(s, i + 1, Len(s))

----------------------------------------------------------------------------
(* Admission rule and dispatcher *)

\* is_triggered without the test of the "off" preset
is_triggered_no_off(st, ev, tome, rnd) ==
    [gs |-> [st EXCEPT !.past_events = DequeAppend(@, ev, PastEventsSize)],
     result |-> tome \/ rnd]

\* is_triggered on the group's state st: the state it leaves and its result
is_triggered(st, ev, tome, rnd) ==
    IF st.preset_name = "off"
    THEN [gs |-> st, result |-> FALSE]
    ELSE [gs |-> [st EXCEPT !.past_events = DequeAppend(@, ev, PastEventsSize)],
          result |-> tome \/ rnd]

\* handle_message without the test of state.processing
handle_message_unguarded(st, ev) ==
    [gs |-> [st EXCEPT !.queue = Append(@, ev), !.processing = TRUE], spawn |-> TRUE]

\* handle_message on the group's state st: the state it leaves and whether it
\* creates a process_messages task
handle_message(st, ev) ==
    LET st1 == [st EXCEPT !.queue = Append(@, ev)]
    IN IF ~st1.processing
       THEN [gs |-> [st1 EXCEPT !.processing = TRUE], spawn |-> TRUE]
       ELSE [gs |-> st1, spawn |-> FALSE]

\* s is the beginning of t
IsPrefix(s, t) == Len(s) <= Len(t) /\ SubSeq(t, 1, Len(s)) = s

NoFailed == [batch |-> <<>>, run |-> 0, carried |-> FALSE]

\* the append that made new of old pushed out old's first event
Evicts(old, new) == Len(old) = PastEventsSize /\ new # old

NewTask(g) == [gid |-> g, pc |-> "created", content |-> <<>>, reply |-> None, k |-> 0]
DoneTask(g) == [gid |-> g, pc |-> "done", content |-> <<>>, reply |-> None, k |-> 0]

\* An inbound group message reaches the priority-10 matcher and its rule runs.
\* reset: the message is the reset command, which the priority-99 matcher
\* handles after the priority-10 one is through with it.
Arrive(g, tome, rnd, reset) ==
    /\ phase = "running"
    /\ nextId < MaxEvents
    /\ reset => ncmd < MaxCommands
    /\ ncmd' = IF reset THEN ncmd + 1 ELSE ncmd
    /\ LET ev == nextId + 1
           r == is_triggered(Touch(g)[g], ev, tome, rnd)
           msg == [id |-> ev, gid |-> g, reset |-> reset,
                   stage |-> IF r.result THEN "handle" ELSE "reset"]
       IN /\ group_states' = [Touch(g) EXCEPT ![g] = r.gs]
          /\ inflight' = IF r.result \/ reset THEN inflight \cup {msg} ELSE inflight
          /\ nextId' = ev
          /\ failed' = IF Evicts(Touch(g)[g].past_events, r.gs.past_events)
                        THEN [failed EXCEPT ![g] = NoFailed] ELSE failed
    /\ UNCHANGED <<phase, run, default_preset, tasks, outbound, data_file, nsave, splitvars>>

HandleMessage(m) ==
    /\ phase = "running"
    /\ m \in inflight /\ m.stage = "handle"
    /\ LET r == handle_message(group_states[m.gid], m.id)
       IN /\ group_states' = [group_states EXCEPT ![m.gid] = r.gs]
          /\ tasks' = IF r.spawn THEN Append(tasks, NewTask(m.gid)) ELSE tasks
    /\ inflight' = (inflight \ {m}) \cup
                   (IF m.reset THEN {[m EXCEPT !.stage = "reset"]} ELSE {})
    /\ UNCHANGED <<phase, run, default_preset, outbound, data_file, nextId, ncmd, nsave,
                   failed, splitvars>>

----------------------------------------------------------------------------
(* process_messages: a step is [gs, w, out], the group's state, the task and
   the group's outbound messages as the code leaves them at its next
   suspension point (w.pc = "done": the task is over) *)

\* the except clause for exception e: the failure message, which ends with
\* str(e), is handed to handler.send
ExceptHandler(gs, w, out, e) ==
    [gs |-> gs,
     w |-> [w EXCEPT !.pc = "fail_send"],
     out |-> Append(out, [kind |-> "failure", text |-> <<e>>])]

\* an iteration that sends the model the event it took off the queue, not
\* the pending events
LoopHead_popped_event(gs, w, out) ==
    IF gs.queue = <<>>
    THEN [gs |-> [gs EXCEPT !.processing = FALSE], w |-> DoneTask(w.gid), out |-> out]
    ELSE [gs |-> [gs EXCEPT !.queue = Tail(@)],
          w |-> [gid |-> w.gid, pc |-> "call",
                 content |-> <<format_message(Head(gs.queue))>>,
                 reply |-> None, k |-> 0],
          out |-> <<>>]

\* the while test and the head of an iteration, up to the model call
LoopHead(gs, w, out) ==
    IF gs.queue = <<>>
    THEN [gs |-> [gs EXCEPT !.processing = FALSE], w |-> DoneTask(w.gid), out |-> out]
    ELSE LET gs1 == [gs EXCEPT !.queue = Tail(@)]
         IN IF Len(gs1.past_events) < 1
            THEN [gs |-> [gs1 EXCEPT !.processing = FALSE],
                  w |-> DoneTask(w.gid), out |-> <<>>]
            ELSE [gs |-> gs1,
                  w |-> [gid |-> w.gid, pc |-> "call",
                         content |-> [i \in 1..Len(gs1.past_events) |->
                                         format_message(gs1.past_events[i])],
                         reply |-> None, k |-> 0],
                  out |-> <<>>]

\* index of the first segment from k on that is sent, 0 when there is none
NextSegment(reply, k) ==
    LET segs == Split(reply)
        ok == {i \in k..Len(segs) : ~(Len(segs[i]) = 0 \/ IsSpace(segs[i]))}
    IN IF ok = {} THEN 0 ELSE CHOOSE i \in ok : \A j \in ok : i <= j

\* the assistant turn made of the segments, without the delimiters
Segments_joined(gs, w, out, k) ==
    IF NextSegment(w.reply, k) # 0
    THEN [gs |-> gs, w |-> [w EXCEPT !.pc = "sleep", !.k = NextSegment(w.reply, k)],
          out |-> out]
    ELSE LoopHead([gs EXCEPT !.history =
                       DequeAppend(@, AssistantTurn(Remove(w.reply, <<"<botbr>">>)),
                                   HistorySize)],
                  w, out)

\* the for loop over the segments from segment k on, then the assistant turn
Segments(gs, w, out, k) ==
    IF NextSegment(w.reply, k) # 0
    THEN [gs |-> gs, w |-> [w EXCEPT !.pc = "sleep", !.k = NextSegment(w.reply, k)],
          out |-> out]
    ELSE LoopHead([gs EXCEPT !.history =
                       DequeAppend(@, AssistantTurn(w.reply), HistorySize)],
                  w, out)

\* from the assert on
AfterReasoning(gs, w, out) ==
    IF w.reply = None THEN ExceptHandler(gs, w, out, "AssertionError")
    ELSE Segments(gs, w, out, 1)

\* the user turn saved and the pending events kept
CallSuccess_keep_pending(gs, w, out, resp) ==
    LET gs1 == [gs EXCEPT !.history = DequeAppend(@, UserTurn(w.content), HistorySize)]
        p == pop_reasoning_content(resp.content)
        w1 == [w EXCEPT !.reply = p.reply]
    IN AfterReasoning(gs1, w1, out)

\* the model call returned resp
CallSuccess(gs, w, out, resp) ==
    LET gs1 == [gs EXCEPT !.history = DequeAppend(@, UserTurn(w.content), HistorySize),
                          !.past_events = <<>>]
        p == pop_reasoning_content(resp.content)
        reasoning_content ==
            IF resp.reasoning_content # None /\ resp.reasoning_content # <<>>
            THEN resp.reasoning_content ELSE p.think
        w1 == [w EXCEPT !.reply = p.reply]
    IN IF gs1.output_reasoning_content
          /\ reasoning_content # None /\ reasoning_content # <<>>
       THEN [gs |-> gs1, w |-> [w1 EXCEPT !.pc = "send_reasoning"],
             out |-> Append(out, [kind |-> "reasoning", text |-> reasoning_content])]
       ELSE AfterReasoning(gs1, w1, out)

\* the user turn saved and the pending events dropped before the model call
CallFailure_saved_first(gs, w, out, e) ==
    ExceptHandler([gs EXCEPT !.history = DequeAppend(@, UserTurn(w.content), HistorySize),
                             !.past_events = <<>>],
                  w, out, e)

\* the model call raised e
CallFailure(gs, w, out, e) == ExceptHandler(gs, w, out, e)

\* the task ends with the exception that handler.send raised in the except
\* clause: line 282 is not reached
Die(gs, w, out) == [gs |-> gs, w |-> DoneTask(w.gid), out |-> out]

Apply(i, r) ==
    /\ group_states' = [group_states EXCEPT ![tasks[i].gid] = r.gs]
    /\ tasks' = IF r.w.pc = "done" THEN RemoveAt(tasks, i)
                ELSE [tasks EXCEPT ![i] = r.w]
    /\ outbound' = [outbound EXCEPT ![tasks[i].gid] = r.out]
    /\ UNCHANGED <<phase, run, default_preset, inflight, data_file, nextId, ncmd, nsave,
                   splitvars>>

Running(i, pc) == phase = "running" /\ i \in 1..Len(tasks) /\ tasks[i].pc = pc

Cur(i) == group_states[tasks[i].gid]
Out(i) == outbound[tasks[i].gid]

WorkerStart(i) ==
    /\ Running(i, "created")
    /\ Apply(i, LoopHead(Cur(i), tasks[i], Out(i)))
    /\ UNCHANGED failed

\* the record of a failed batch when the model call answers: the batch has
\* been carried into this call, or there was none
Answered(f) == IF f.batch # <<>> /\ ~f.carried THEN [f EXCEPT !.carried = TRUE]
               ELSE NoFailed

ModelReturns(i, resp) ==
    /\ Running(i, "call")
    /\ Apply(i, CallSuccess(Cur(i), tasks[i], Out(i), resp))
    /\ failed' = [failed EXCEPT ![tasks[i].gid] = Answered(@)]

\* the record of the batch whose model call raises: the batch, unless a reset
\* or an eviction since the call was issued has taken events of it away
Raised(gs, w) ==
    IF IsPrefix(w.content, [j \in 1..Len(gs.past_events) |->
                               format_message(gs.past_events[j])])
    THEN [batch |-> w.content, run |-> run, carried |-> FALSE]
    ELSE NoFailed

ModelRaises(i, e) ==
    /\ Running(i, "call")
    /\ Apply(i, CallFailure(Cur(i), tasks[i], Out(i), e))
    /\ failed' = [failed EXCEPT ![tasks[i].gid] = Raised(Cur(i), tasks[i])]

ReasoningSent(i, ok) ==
    /\ Running(i, "send_reasoning")
    /\ Apply(i, IF ok THEN AfterReasoning(Cur(i), tasks[i], Out(i))
                ELSE ExceptHandler(Cur(i), tasks[i], Out(i), "ActionFailed"))
    /\ UNCHANGED failed

\* asyncio.sleep(2) is over: the segment is handed to handler.send
SleepDone(i) ==
    /\ Running(i, "sleep")
    /\ Apply(i, [gs |-> Cur(i), w |-> [tasks[i] EXCEPT !.pc = "send"],
                 out |-> Append(Out(i),
                                [kind |-> "segment",
                                 text |-> Strip(Split(tasks[i].reply)[tasks[i].k])])])
    /\ UNCHANGED failed

SegmentSent(i, ok) ==
    /\ Running(i, "send")
    /\ Apply(i, IF ok THEN Segments(Cur(i), tasks[i], Out(i), tasks[i].k + 1)
                ELSE ExceptHandler(Cur(i), tasks[i], Out(i), "ActionFailed"))
    /\ UNCHANGED failed

FailureSent(i, ok) ==
    /\ Running(i, "fail_send")
    /\ Apply(i, IF ok THEN LoopHead(Cur(i), tasks[i], Out(i))
                ELSE Die(Cur(i), tasks[i], Out(i)))
    /\ UNCHANGED failed

----------------------------------------------------------------------------
(* Administrative commands *)

handle_preset(st, preset_name) ==
    IF preset_name = "off" THEN [st EXCEPT !.preset_name = preset_name]
    ELSE IF preset_name \notin PresetNames THEN st
    ELSE [st EXCEPT !.preset_name = preset_name]

handle_edit_preset(st, group_prompt) == [st EXCEPT !.group_prompt = group_prompt]

handle_reset(st) == [st EXCEPT !.past_events = <<>>, !.history = <<>>]

handle_think(st) ==
    [st EXCEPT !.output_reasoning_content = ~st.output_reasoning_content]

\* a priority-1 command (block=True: the message goes no further)
Command(g, st) ==
    /\ phase = "running"
    /\ ncmd < MaxCommands
    /\ ncmd' = ncmd + 1
    /\ group_states' = [Touch(g) EXCEPT ![g] = st]
    /\ UNCHANGED <<phase, run, default_preset, tasks, inflight, outbound, data_file,
                   nextId, nsave, failed, splitvars>>

HandlePreset(g, preset_name) == Command(g, handle_preset(Touch(g)[g], preset_name))

HandleEditPreset(g, group_prompt) ==
    Command(g, handle_edit_preset(Touch(g)[g], group_prompt))

HandleThink(g) == Command(g, handle_think(Touch(g)[g]))

\* the priority-99 matcher gets the reset command
HandleReset(m) ==
    /\ phase = "running"
    /\ m \in inflight /\ m.stage = "reset"
    /\ group_states' = [group_states EXCEPT ![m.gid] = handle_reset(@)]
    /\ inflight' = (inflight \ {m}) \cup {[m EXCEPT !.stage = "done"]}
    /\ failed' = [failed EXCEPT ![m.gid] = NoFailed]
    /\ UNCHANGED <<phase, run, default_preset, tasks, outbound, data_file, nextId, ncmd,
                   nsave, splitvars>>

----------------------------------------------------------------------------
(* Snapshot: the file is a JSON object, its keys are strings of digits *)

\* str(gid), as json.dumps writes a dict key
RECURSIVE IntToStr(_)
IntToStr(n) == IF n < 10 THEN <<n>> ELSE IntToStr(n \div 10) \o <<n % 10>>

\* the digits read from the right
RECURSIVE StrToInt_reversed(_)
StrToInt_reversed(s) == IF Len(s) = 1 THEN s[1]
                        ELSE 10 * StrToInt_reversed(Tail(s)) + s[1]

\* int(gid)
RECURSIVE StrToInt(_)
StrToInt(s) == IF Len(s) = 1 THEN s[1]
               ELSE 10 * StrToInt(SubSeq(s, 1, Len(s) - 1)) + s[Len(s)]

NoFile == [exists |-> FALSE, valid |-> TRUE, data |-> <<>>]

\* a file that json.loads rejects: what is left when the write at line 388
\* raises after open(data_file, "w") has truncated the file
BadFile == [exists |-> TRUE, valid |-> FALSE, data |-> <<>>]

SaveData(states) ==
    [key \in {IntToStr(g) : g \in DOMAIN states} |->
        LET state == states[CHOOSE g \in DOMAIN states : IntToStr(g) = key]
        IN [preset |-> state.preset_name,
            history |-> state.history,
            group_prompt |-> state.group_prompt,
            output_reasoning_content |-> state.output_reasoning_content]]

LoadData(data) ==
    [g \in {StrToInt(key) : key \in DOMAIN data} |->
        LET state_data == data[CHOOSE key \in DOMAIN data : StrToInt(key) = g]
        IN [GroupState EXCEPT
               !.preset_name = state_data.preset,
               !.history = LastN(state_data.history, HistorySize),
               !.group_prompt = state_data.group_prompt,
               !.output_reasoning_content = state_data.output_reasoning_content]]

save_state(states) == [exists |-> TRUE, valid |-> TRUE, data |-> SaveData(states)]

\* json.loads at line 398 raises
load_state_raises(file) == file.exists /\ ~file.valid

load_state(file, states) ==
    IF ~file.exists THEN states
    ELSE [g \in DOMAIN states \cup DOMAIN LoadData(file.data) |->
             IF g \in DOMAIN LoadData(file.data) THEN LoadData(file.data)[g]
             ELSE states[g]]

\* a file left by an earlier run under a larger history_size
OldHistory ==
    [i \in 1..(HistorySize + 1) |->
        IF (HistorySize + 1 - i) % 2 = 0 THEN AssistantTurn(<<"b">>)
        ELSE UserTurn(<<"0">>)]

OldFile ==
    [exists |-> TRUE, valid |-> TRUE,
     data |-> (IntToStr(7) :> [preset |-> "p1", history |-> OldHistory,
                                group_prompt |-> None,
                                output_reasoning_content |-> FALSE])]

\* driver.on_startup: an exception of load_state leaves init_plugin before
\* line 417, so the job is added only in phase "running"
InitPlugin ==
    /\ phase = "boot"
    /\ IF load_state_raises(data_file)
       THEN /\ phase' = "startup_failed"
            /\ UNCHANGED group_states
       ELSE /\ group_states' = load_state(data_file, group_states)
            /\ phase' = "running"
    /\ UNCHANGED <<run, default_preset, tasks, inflight, outbound, data_file, nextId,
                   ncmd, nsave, failed, splitvars>>

\* the scheduler's interval job; ok: the write at line 388 returns
SaveJob(ok) ==
    /\ phase = "running"
    /\ nsave < MaxSaves
    /\ nsave' = nsave + 1
    /\ data_file' = IF ok THEN save_state(group_states) ELSE BadFile
    /\ UNCHANGED <<phase, run, default_preset, group_states, tasks, inflight, outbound,
                   nextId, ncmd, failed, splitvars>>

\* driver.on_shutdown, after which the process is gone; the next process has
\* imported the module again
CleanupPlugin(ok) ==
    /\ phase = "running"
    /\ nsave < MaxSaves
    /\ nsave' = nsave + 1
    /\ data_file' = IF ok THEN save_state(group_states) ELSE BadFile
    /\ phase' = "boot"
    /\ run' = run + 1
    /\ group_states' = <<>>
    /\ tasks' = <<>>
    /\ inflight' = {}
    /\ outbound' = [g \in GroupIds |-> <<>>]
    /\ UNCHANGED <<default_preset, nextId, ncmd, failed, splitvars>>

----------------------------------------------------------------------------
(* The plugin *)

NoSplit == [reply |-> None, reasoning |-> None, segments |-> <<>>, done |-> FALSE]

SysInit ==
    /\ phase = "boot"
    /\ run = 1
    /\ default_preset \in {"off", "p1"}
    /\ group_states = <<>>
    /\ tasks = <<>>
    /\ inflight = {}
    /\ outbound = [g \in GroupIds |-> <<>>]
    /\ data_file \in {NoFile, OldFile}
    /\ nextId = 0
    /\ ncmd = 0
    /\ nsave = 0
    /\ failed = [g \in GroupIds |-> NoFailed]

Init == SysInit /\ in_content = <<>> /\ split_out = NoSplit

Next ==
    \/ \E g \in ChatGroups, tome \in BOOLEAN, rnd \in BOOLEAN, reset \in BOOLEAN :
           Arrive(g, tome, rnd, reset)
    \/ \E m \in inflight : HandleMessage(m)
    \/ \E m \in inflight : HandleReset(m)
    \/ \E i \in 1..Len(tasks) : WorkerStart(i)
    \/ \E i \in 1..Len(tasks), resp \in Responses : ModelReturns(i, resp)
    \/ \E i \in 1..Len(tasks), e \in ModelErrors : ModelRaises(i, e)
    \/ \E i \in 1..Len(tasks), ok \in BOOLEAN : ReasoningSent(i, ok)
    \/ \E i \in 1..Len(tasks) : SleepDone(i)
    \/ \E i \in 1..Len(tasks), ok \in BOOLEAN : SegmentSent(i, ok)
    \/ \E i \in 1..Len(tasks), ok \in BOOLEAN : FailureSent(i, ok)
    \/ \E g \in ChatGroups, preset_name \in PresetArgs : HandlePreset(g, preset_name)
    \/ \E g \in ChatGroups, group_prompt \in PromptArgs : HandleEditPreset(g, group_prompt)
    \/ \E g \in ChatGroups : HandleThink(g)
    \/ InitPlugin
    \/ \E ok \in BOOLEAN : SaveJob(ok)
    \/ \E ok \in BOOLEAN : CleanupPlugin(ok)

Spec == Init /\ [][Next]_vars

----------------------------------------------------------------------------
(* The reply splitter on its own: lines 241-266 applied to a response text *)

RECURSIVE SentFrom(_, _)
SentFrom(reply, k) ==
    IF NextSegment(reply, k) = 0 THEN <<>>
    ELSE <<Strip(Split(reply)[NextSegment(reply, k)])>>
             \o SentFrom(reply, NextSegment(reply, k) + 1)

Texts == UNION {[1..n -> Alphabet] : n \in 0..MaxLen}

SplitInit ==
    /\ SysInit /\ default_preset = "p1" /\ data_file = NoFile
    /\ in_content \in Texts
    /\ split_out = NoSplit

SplitReply ==
    /\ ~split_out.done
    /\ split_out' = [reply |-> pop_reasoning_content(in_content).reply,
                     reasoning |-> pop_reasoning_content(in_content).think,
                     segments |-> SentFrom(pop_reasoning_content(in_content).reply, 1),
                     done |-> TRUE]
    /\ UNCHANGED <<in_content, sysvars>>

SplitNext == SplitReply

SplitSpec == SplitInit /\ [][SplitNext]_vars

----------------------------------------------------------------------------
(* Properties *)

Workers(g) == {i \in 1..Len(tasks) : tasks[i].gid = g}

\* where the group's worker is suspended, "none" without a worker
Pc(g) == IF Workers(g) = {} THEN "none" ELSE tasks[CHOOSE i \in Workers(g) : TRUE].pc

Known(g) == g \in DOMAIN group_states

HandlePending(g) == \E m \in inflight : m.gid = g /\ m.stage = "handle"

\* C1: at most one process_messages task per group at any instant, and a
\* group with a task has processing set
SingleFlight ==
    \A g \in GroupIds :
        /\ Cardinality(Workers(g)) <= 1
        /\ Workers(g) # {} => Known(g) /\ group_states[g].processing

\* a worker suspended at the sleep between messages while two more
\* submissions of its group have been queued
SingleFlightWitness ==
    \E g \in GroupIds :
        Known(g) /\ Pc(g) = "sleep" /\ Len(group_states[g].queue) >= 2

\* C2: once no worker runs and no submission is under way, the queue is empty
\* and processing is false (the state the group must end in after a burst)
DrainedWhenQuiet ==
    \A g \in GroupIds :
        (Known(g) /\ Workers(g) = {} /\ ~HandlePending(g))
            => (group_states[g].queue = <<>> /\ ~group_states[g].processing)

\* C3: no two consecutive turns of a history have the same role
HistoryAlternates ==
    \A g \in DOMAIN group_states :
        \A i \in 1..(Len(group_states[g].history) - 1) :
            group_states[g].history[i].role # group_states[g].history[i + 1].role

\* new is old after at most two appends that pushed out its oldest elements
Shifted(old, new, n) ==
    (Len(old) = n /\ Len(new) = n /\ new # old)
        => \E k \in 1..2 : SubSeq(new, 1, n - k) = SubSeq(old, k + 1, n)

\* C4: every history has at most history_size turns and every past_events at
\* most past_events_size events, and an insert into a full one pushes out the
\* oldest elements
BufferBounds ==
    /\ [](\A g \in DOMAIN group_states :
            /\ Len(group_states[g].history) <= HistorySize
            /\ Len(group_states[g].past_events) <= PastEventsSize)
    /\ [][\A g \in DOMAIN group_states \cap DOMAIN group_states' :
            /\ Shifted(group_states[g].history, group_states'[g].history,
                       HistorySize)
            /\ Shifted(group_states[g].past_events, group_states'[g].past_events,
                       PastEventsSize)
        ]_vars

\* a history cut to history_size by load_state, and a past_events that has
\* lost its oldest event to a new one
BufferBoundsWitness ==
    /\ data_file = OldFile /\ Len(OldHistory) > HistorySize
    /\ Known(7) /\ Len(group_states[7].history) = HistorySize
    /\ Known(12) /\ Len(group_states[12].past_events) = PastEventsSize
    /\ group_states[12].past_events[1] > 1

ModelFailure(out) ==
    Len(out) = 1 /\ out[1].kind = "failure" /\ out[1].text[1] \in ModelErrors

\* C5: the iteration whose model call raises changes neither history nor
\* past_events and hands exactly one message, the failure message, to
\* handler.send: the step that takes the exception and the step after the
\* send leave both unchanged, and the iteration's messages are that one
FailureLeavesState ==
    [][\A g \in GroupIds :
          (Known(g) /\ phase' = "running") =>
            /\ (Pc(g) = "call" /\ Pc(g)' = "fail_send"
                  /\ outbound'[g][Len(outbound'[g])].text[1] \in ModelErrors)
               => /\ group_states'[g].history = group_states[g].history
                  /\ group_states'[g].past_events = group_states[g].past_events
                  /\ ModelFailure(outbound'[g])
            /\ (Pc(g) = "fail_send" /\ ModelFailure(outbound[g]) /\ Pc(g)' # "fail_send")
               => /\ group_states'[g].history = group_states[g].history
                  /\ group_states'[g].past_events = group_states[g].past_events
                  /\ outbound'[g] \in {outbound[g], <<>>}
      ]_vars

\* the failure message of a failed call is with handler.send while the two
\* events of the batch are still pending
FailureLeavesStateWitness ==
    \E g \in GroupIds :
        /\ Known(g) /\ Pc(g) = "fail_send" /\ ModelFailure(outbound[g])
        /\ Len(group_states[g].past_events) = 2

\* C6: save_state then load_state gives, under the same group ids, states with
\* the saved history, preset_name, group_prompt and output_reasoning_content,
\* an empty queue and processing false
RoundTrip ==
    LET loaded == load_state(save_state(group_states), <<>>)
    IN /\ DOMAIN loaded = DOMAIN group_states
       /\ \A g \in DOMAIN group_states :
             /\ loaded[g].history = group_states[g].history
             /\ loaded[g].preset_name = group_states[g].preset_name
             /\ loaded[g].group_prompt = group_states[g].group_prompt
             /\ loaded[g].output_reasoning_content
                    = group_states[g].output_reasoning_content
             /\ loaded[g].queue = <<>>
             /\ ~loaded[g].processing

\* after a restart: the states of two groups, one with a history and with
\* output_reasoning_content set, as load_state rebuilt them from the file that
\* save_state wrote
RoundTripWitness ==
    /\ phase = "running" /\ run = 2
    /\ group_states = load_state(data_file, <<>>)
    /\ DOMAIN group_states = {7, 12}
    /\ group_states[12].history # <<>>
    /\ group_states[12].output_reasoning_content

\* C7: an inbound message that finds the group's preset "off" changes neither
\* the queue nor past_events, creates no task and is not handed to
\* handle_message
OffAdmitsNothing ==
    [][\A g \in GroupIds :
          (nextId' # nextId /\ g \in DOMAIN group_states'
             /\ Touch(g)[g].preset_name = "off")
          => /\ group_states'[g].queue = Touch(g)[g].queue
             /\ group_states'[g].past_events = Touch(g)[g].past_events
             /\ tasks' = tasks
             /\ \A m \in inflight' \ inflight : m.stage # "handle"
      ]_vars

\* two messages have come in and the preset has been "off" all along
OffAdmitsNothingWitness ==
    /\ default_preset = "off" /\ ncmd = 0 /\ nextId >= 2
    /\ Known(12) /\ group_states[12].preset_name = "off"

\* C8: of a response that begins with a <think> block, the visible reply is
\* the text after the block, the reasoning is the text inside it, and the
\* segments are those of the text after the block
ThinkBlockRemoved ==
    (split_out.done /\ ThinkMatched(in_content) /\ ThinkGroup(in_content) # <<>>)
    => LET rest == Strip(SubSeq(in_content, ThinkClose(in_content) + 1,
                                Len(in_content)))
       IN /\ split_out.reply = rest
          /\ split_out.reasoning = Strip(ThinkGroup(in_content))
          /\ split_out.segments = SentFrom(rest, 1)

\* C9: no model call is issued for a group whose preset is "off" (an
\* iteration takes an event off the queue and leaves its worker at the call)
NoCallWhileOff ==
    [][\A g \in GroupIds :
          (Known(g) /\ g \in DOMAIN group_states' /\ Pc(g)' = "call"
             /\ Len(group_states'[g].queue) < Len(group_states[g].queue))
          => group_states[g].preset_name # "off"
      ]_vars

\* C10: a group whose processing is false has an empty queue
IdleMeansEmpty ==
    \A g \in DOMAIN group_states :
        ~group_states[g].processing => group_states[g].queue = <<>>

UserTurns(h) == {h[i] : i \in {j \in 1..Len(h) : h[j].role = "user"}}

\* the step in which group g's worker takes the response of its model call
\* (any step of a worker at the call that is not the step taking an exception
\* of the call)
SuccessStep(g) ==
    /\ Pc(g) = "call" /\ tasks' # tasks
    /\ ~(Pc(g)' = "fail_send"
           /\ outbound'[g][Len(outbound'[g])].text[1] \in ModelErrors)

\* C11: the worker appends a user turn only in the step that takes the
\* response of a model call, and clears past_events only in that same step:
\* that step appends the turn of the call's batch and leaves past_events
\* empty; no other step adds a user turn to the history, and no other step of
\* the worker changes past_events
Lockstep ==
    [][\A g \in GroupIds :
          (Known(g) /\ phase' = "running") =>
            LET h == group_states[g].history
                hn == group_states'[g].history
                u == UserTurn(tasks[CHOOSE i \in Workers(g) : TRUE].content)
            IN /\ SuccessStep(g)
                  => /\ group_states'[g].past_events = <<>>
                     /\ \/ hn = DequeAppend(h, u, HistorySize)
                        \/ /\ hn = DequeAppend(DequeAppend(h, u, HistorySize),
                                               hn[Len(hn)], HistorySize)
                           /\ hn[Len(hn)].role = "assistant"
               /\ ~SuccessStep(g)
                  => /\ UserTurns(hn) \subseteq UserTurns(h)
                     /\ (Workers(g) # {} /\ tasks' # tasks)
                        => group_states'[g].past_events = group_states[g].past_events
      ]_vars

\* the response has just been taken: the turn of a batch of two events is the
\* last of the history and past_events is empty, the first segment not yet sent
LockstepWitness ==
    \E g \in GroupIds :
        /\ Known(g) /\ Pc(g) = "sleep" /\ tasks[CHOOSE i \in Workers(g) : TRUE].k = 1
        /\ group_states[g].history # <<>>
        /\ LET last == group_states[g].history[Len(group_states[g].history)]
           IN last.role = "user" /\ Len(last.content) = 2
        /\ group_states[g].past_events = <<>>

\* C12: a failed model call does not end the worker's service: once the
\* failure message of a failed call has been handed over, the worker goes on
\* to its next queue check, which either starts the next iteration (the next
\* model call) or finds the queue empty and ends with processing false
FailureNotFatal ==
    [][\A g \in GroupIds :
          (Known(g) /\ phase' = "running" /\ tasks' # tasks
             /\ Pc(g) = "fail_send" /\ ModelFailure(outbound[g]))
          => \/ Pc(g)' = "call"
             \/ /\ Pc(g)' = "none"
                /\ group_states'[g].queue = <<>>
                /\ ~group_states'[g].processing
      ]_vars

\* C13: a failed batch is not retried by itself: the worker's step after the
\* failure message of a failed call does not issue a model call with the
\* content of the failed one (the same pending events, none new)
NoAutomaticRetry ==
    [][\A g \in GroupIds :
          (Known(g) /\ phase' = "running" /\ tasks' # tasks
             /\ Pc(g) = "fail_send" /\ ModelFailure(outbound[g])
             /\ Pc(g)' = "call")
          => tasks'[CHOOSE i \in Workers(g) : TRUE].content
                 # tasks[CHOOSE i \in Workers(g) : TRUE].content
      ]_vars

\* the user turn that a step taking a response has appended to the history hn:
\* its last turn, or the one before the assistant turn appended with it
AppendedUserTurn(hn) ==
    IF hn[Len(hn)].role = "user" THEN hn[Len(hn)] ELSE hn[Len(hn) - 1]

\* a failed batch is owed to group g: its model call raised, no reset and no
\* eviction from past_events has happened since the call was issued, and no
\* model call has answered since
Owed(g) == failed[g].batch # <<>> /\ ~failed[g].carried

\* C14 as stated: the user turn appended by the next model call that answers
\* begins with the events of the owed batch, in their order
CarriedForward ==
    [][\A g \in GroupIds :
          (Known(g) /\ phase' = "running" /\ SuccessStep(g) /\ Owed(g))
          => IsPrefix(failed[g].batch,
                      AppendedUserTurn(group_states'[g].history).content)
      ]_vars

\* C14: within one run of the process, the user turn appended by the next
\* model call that answers begins with the events of the owed batch, in
\* their order, and the events admitted later follow them
CarriedForwardInRun ==
    [][\A g \in GroupIds :
          (Known(g) /\ phase' = "running" /\ SuccessStep(g) /\ Owed(g)
             /\ failed[g].run = run)
          => IsPrefix(failed[g].batch,
                      AppendedUserTurn(group_states'[g].history).content)
      ]_vars

\* a model call has answered after one that raised in this run: the last user
\* turn begins with the failed batch and goes on with a later event
CarriedForwardInRunWitness ==
    \E g \in GroupIds :
        /\ Known(g) /\ Pc(g) = "sleep"
        /\ failed[g].batch # <<>> /\ failed[g].carried /\ failed[g].run = run
        /\ group_states[g].history # <<>>
        /\ LET last == group_states[g].history[Len(group_states[g].history)]
           IN /\ last.role = "user"
              /\ IsPrefix(failed[g].batch, last.content)
              /\ Len(last.content) > Len(failed[g].batch)

\* C15: a snapshot that cannot be read does not stop the startup: init_plugin
\* never ends by raising, so that every startup reaches the running phase,
\* in which the save job is scheduled
StartupSurvivesLoad == phase # "startup_failed"

\* the task of group g's worker
W(g) == tasks[CHOOSE i \in Workers(g) : TRUE]

\* the texts of the segments among the messages out, in their order
SegmentTexts(out) ==
    LET segs == SelectSeq(out, LAMBDA m : m.kind = "segment")
    IN [i \in 1..Len(segs) |-> segs[i].text]

\* the reasoning of response resp: the out-of-band field when it is there,
\* else the text taken from the <think> block
PreferredReasoning(resp) ==
    IF resp.reasoning_content # None /\ resp.reasoning_content # <<>>
    THEN resp.reasoning_content
    ELSE pop_reasoning_content(resp.content).think

\* a step of group g's worker that appends an assistant turn
AppendsAssistant(g) ==
    /\ Workers(g) # {} /\ tasks' # tasks
    /\ group_states'[g].history # group_states[g].history
    /\ group_states'[g].history # <<>>
    /\ group_states'[g].history[Len(group_states'[g].history)].role = "assistant"

\* C16: of the messages of one iteration, a reasoning message can only be the
\* first; it is handed over in the step that takes the response, only with
\* output_reasoning_content set, and is the response's out-of-band reasoning
\* when there is one, else the extracted one; the segments handed over are
\* the non-blank segments of the reply, trimmed, in their order; and the
\* assistant turn is appended once all of them are out and holds the whole
\* reply as pop_reasoning_content returned it, delimiters included
OutboundOrder ==
    /\ [](\A g \in GroupIds :
            /\ \A i \in 2..Len(outbound[g]) : outbound[g][i].kind # "reasoning"
            /\ (Known(g) /\ Pc(g) \in {"sleep", "send"})
               => /\ IsPrefix(SegmentTexts(outbound[g]), SentFrom(W(g).reply, 1))
                  /\ Pc(g) = "send"
                     => outbound[g][Len(outbound[g])].text
                            = Strip(Split(W(g).reply)[W(g).k]))
    /\ [][\A g \in GroupIds :
            (Known(g) /\ phase' = "running") =>
              /\ (/\ outbound'[g] # outbound[g] /\ outbound'[g] # <<>>
                  /\ outbound'[g][Len(outbound'[g])].kind = "reasoning")
                 => /\ SuccessStep(g)
                    /\ group_states[g].output_reasoning_content
                    /\ Len(outbound'[g]) = 1
                    /\ \E resp \in Responses :
                          /\ W(g)'.reply = pop_reasoning_content(resp.content).reply
                          /\ outbound'[g][1].text = PreferredReasoning(resp)
              /\ AppendsAssistant(g)
                 => LET hn == group_states'[g].history
                        a == hn[Len(hn)].content
                    IN /\ Pc(g) \in {"call", "send_reasoning", "send"}
                       /\ Pc(g) # "call"
                          => /\ a = W(g).reply
                             /\ hn = DequeAppend(group_states[g].history,
                                                 AssistantTurn(a), HistorySize)
                       /\ Pc(g) = "call"
                          => \E resp \in Responses :
                                a = pop_reasoning_content(resp.content).reply
                       /\ SegmentTexts(outbound[g]) = SentFrom(a, 1)
        ]_vars

\* an iteration is over whose messages were the reasoning and then two
\* segments, and the last turn of the history is the reply with its delimiter
OutboundOrderWitness ==
    \E g \in GroupIds :
        /\ Known(g) /\ Workers(g) = {}
        /\ Len(outbound[g]) = 3 /\ outbound[g][1].kind = "reasoning"
        /\ Len(SegmentTexts(outbound[g])) = 2
        /\ group_states[g].history # <<>>
        /\ LET last == group_states[g].history[Len(group_states[g].history)]
           IN /\ last.role = "assistant"
              /\ Len(Split(last.content)) = 2
              /\ SentFrom(last.content, 1) = SegmentTexts(outbound[g])

\* C17: every event that the clear of a step taking a response removes from
\* past_events is in the content of the call, which is the user turn the
\* step appends
NoEventErasedUnseen ==
    [][\A g \in GroupIds :
          (Known(g) /\ phase' = "running" /\ SuccessStep(g))
          => \A i \in 1..Len(group_states[g].past_events) :
                \E j \in 1..Len(W(g).content) :
                    W(g).content[j] = format_message(group_states[g].past_events[i])
      ]_vars

\* C18: once handle_reset has handled a reset command, no user turn of the
\* group's history holds an event that came in before that command
ResetEffective ==
    \A m \in inflight :
        m.stage = "done"
        => \A turn \in UserTurns(group_states[m.gid].history) :
              \A e \in 1..(m.id - 1) :
                  \A j \in 1..Len(turn.content) : turn.content[j] # format_message(e)

\* C19: no history in the file that save_state wrote ends with a user turn
SnapshotWhole ==
    (data_file.exists /\ data_file.valid)
    => \A key \in DOMAIN data_file.data :
          LET h == data_file.data[key].history
          IN h = <<>> \/ h[Len(h)].role = "assistant"

\* C20: a group whose processing is true has a process_messages task
FlagHasWorker ==
    \A g \in DOMAIN group_states :
        group_states[g].processing => Workers(g) # {}

====
